---- MODULE Spec2Model ----
(***************************************************************************)
(* Model of the Pokemon resource server of src/index.js: the Express       *)
(* handlers POST/PUT/DELETE /pokemons, the multer upload middleware, the   *)
(* pokemon collection (Record Store) and the assets/pokemons directory     *)
(* (Asset Store).                                                          *)
(*                                                                         *)
(* A JavaScript string is a sequence of atoms; an atom is either a single  *)
(* character ("4", "-", ",") or an indivisible chunk of a longer literal   *)
(* ("/assets/pokemons/").  A JavaScript value is a record [t, s, n] with   *)
(* t its type tag, s its atoms when it is a string and n its value when it *)
(* is a number.                                                            *)
(*                                                                         *)
(* Every request runs as its own task.  A task is suspended at each await  *)
(* and while multer writes the upload, so one action of the model is one   *)
(* stretch of a handler between two suspension points, with the store      *)
(* operation that ends the suspension executed at its start.               *)
(***************************************************************************)
EXTENDS Integers, Sequences, FiniteSets, TLC

VARIABLES
    store,     \* the pokemon collection: its records in insertion order
    files,     \* the files of assets/pokemons: name -> content
    req,       \* the request each slot is handling, and how far it has got
    nreq,      \* the number of requests received
    deleted    \* the identities of the records deleted so far (history)

vars == <<store, files, req, nreq, deleted>>

(***************************************************************************)
(* Bounds of the model.                                                    *)
(***************************************************************************)
\* requests received in one behaviour of Spec and SpecCreate
MaxReq == 3
\* requests received in one behaviour of SpecSerial
MaxSerialReq == 3
\* requests received in one behaviour of SpecFields
MaxFieldReq == 2
\* identities a request path /pokemons/:id may name: "1" .. NumToString(MaxIdParam)
MaxIdParam == 2
\* values Date.now() may return while uploads are received
MaxTime == 2

\* records of the largest collection the read handlers are run on
MaxRecords == 25

\* read requests of one run
MaxReadReq == 2

\* the largest page number asked for
MaxPage == 3

\* Update requests of one run of racing Updates
MaxUpdateReq == 2

(***************************************************************************)
(* JavaScript values.                                                      *)
(***************************************************************************)
Undefined == [t |-> "undefined", s |-> <<>>, n |-> 0]

NaN == [t |-> "nan", s |-> <<>>, n |-> 0]

Str(s) == [t |-> "string", s |-> s, n |-> 0]

Num(n) == [t |-> "number", s |-> <<>>, n |-> n]

\* Truthy taking the string "0" for false, as a number would be
TruthyZeroString(v) ==
    CASE v.t = "string" -> v.s # <<>> /\ v.s # <<"0">>
      [] v.t = "number" -> v.n # 0
      [] OTHER -> FALSE

\* ToBoolean: what `if (v)` and `v || w` test
Truthy(v) ==
    CASE v.t = "string" -> v.s # <<>>
      [] v.t = "number" -> v.n # 0
      [] OTHER -> FALSE

\* a || b
Or(a, b) == IF Truthy(a) THEN a ELSE b

Digits == <<"0", "1", "2", "3", "4", "5", "6", "7", "8", "9">>

IsDigit(c) == \E i \in 1..Len(Digits) : Digits[i] = c

DigitVal(c) == (CHOOSE i \in 1..Len(Digits) : Digits[i] = c) - 1

IsSpace(c) == c = " "

RECURSIVE SkipSpaces(_)
SkipSpaces(s) ==
    IF s # <<>> /\ IsSpace(Head(s)) THEN SkipSpaces(Tail(s)) ELSE s

\* String.prototype.trim
RECURSIVE TrimEnd(_)
TrimEnd(s) ==
    IF s # <<>> /\ IsSpace(s[Len(s)]) THEN TrimEnd(SubSeq(s, 1, Len(s) - 1)) ELSE s

Trim(s) == TrimEnd(SkipSpaces(s))

\* the number of leading decimal digits of s
RECURSIVE DigitPrefixLen(_)
DigitPrefixLen(s) ==
    IF s # <<>> /\ IsDigit(Head(s)) THEN 1 + DigitPrefixLen(Tail(s)) ELSE 0

\* the value of a sequence of decimal digits
RECURSIVE DigitsValue(_)
DigitsValue(s) ==
    IF s = <<>> THEN 0
    ELSE 10 * DigitsValue(SubSeq(s, 1, Len(s) - 1)) + DigitVal(s[Len(s)])

\* Number.prototype.toString of an integer
RECURSIVE NatToString(_)
NatToString(n) ==
    IF n < 10 THEN <<Digits[n + 1]>>
    ELSE NatToString(n \div 10) \o <<Digits[(n % 10) + 1]>>

NumToString(n) == IF n < 0 THEN <<"-">> \o NatToString(-n) ELSE NatToString(n)

\* parseInt of a string: leading white space, an optional sign, then the longest
\* prefix of decimal digits; NaN when there is no digit
ParseIntStr(s) ==
    LET a == SkipSpaces(s)
        neg == a # <<>> /\ Head(a) = "-"
        b == IF a # <<>> /\ Head(a) \in {"-", "+"} THEN Tail(a) ELSE a
        k == DigitPrefixLen(b)
    IN  IF k = 0 THEN NaN
        ELSE LET m == DigitsValue(SubSeq(b, 1, k))
             IN  Num(IF neg THEN -m ELSE m)

\* parseInt(v) and parseInt(v, 10): the argument is converted to a string first
ParseInt(v) ==
    CASE v.t = "string" -> ParseIntStr(v.s)
      [] v.t = "number" -> ParseIntStr(NumToString(v.n))
      [] OTHER -> NaN

\* String.prototype.split(",") followed by map(t => t.trim())
RECURSIVE SplitComma(_, _)
SplitComma(s, cur) ==
    IF s = <<>> THEN <<cur>>
    ELSE IF Head(s) = "," THEN <<cur>> \o SplitComma(Tail(s), <<>>)
    ELSE SplitComma(Tail(s), Append(cur, Head(s)))

RECURSIVE MapTrim(_)
MapTrim(parts) ==
    IF parts = <<>> THEN <<>> ELSE <<Trim(Head(parts))>> \o MapTrim(Tail(parts))

SplitTypes(s) == MapTrim(SplitComma(s, <<>>))

\* path.extname: from the last "." of the name to its end, "" when the name has
\* no "." or only a leading one
RECURSIVE LastDot(_)
LastDot(s) ==
    IF s = <<>> THEN 0
    ELSE IF s[Len(s)] = "." THEN Len(s)
    ELSE LastDot(SubSeq(s, 1, Len(s) - 1))

ExtName(name) ==
    LET d == LastDot(name)
    IN  IF d <= 1 THEN <<>> ELSE SubSeq(name, d, Len(name))

(***************************************************************************)
(* Records, image references and the pokemon schema.                       *)
(***************************************************************************)
Host == "http://localhost:3000"

AssetDir == "/assets/pokemons/"

\* `http://localhost:3000/assets/pokemons/${finalName}`
ImageUrl(finalName) == <<Host, AssetDir>> \o finalName

DefaultImage == <<Host, AssetDir, "default", ".", "png">>

\* p.image.includes('/assets/pokemons/')
IncludesAssetDir(image) == \E i \in 1..Len(image) : image[i] = AssetDir

\* p.image.split('/assets/pokemons/')[1]: what lies between the first occurrence
\* of the separator and the next one (or the end)
RECURSIVE UntilAssetDir(_)
UntilAssetDir(s) ==
    IF s = <<>> \/ Head(s) = AssetDir THEN <<>>
    ELSE <<Head(s)>> \o UntilAssetDir(Tail(s))

SplitAssetDir1(image) ==
    LET i == CHOOSE k \in 1..Len(image) :
                 image[k] = AssetDir /\ \A j \in 1..(k - 1) : image[j] # AssetDir
    IN  UntilAssetDir(SubSeq(image, i + 1, Len(image)))

StatKeys == {"HP", "Attack", "Defense", "SpecialAttack", "SpecialDefense", "Speed"}

\* the form field that carries a stat: 'base.HP', ...
BaseField ==
    [HP |-> "base.HP", Attack |-> "base.Attack", Defense |-> "base.Defense",
     SpecialAttack |-> "base.SpecialAttack", SpecialDefense |-> "base.SpecialDefense",
     Speed |-> "base.Speed"]

\* raw[key]
Raw(raw, key) == IF key \in DOMAIN raw THEN raw[key] ELSE Undefined

\* raw.name?.french: form fields are strings and numbers, which have no property
\* `french`
NameFrenchOf(v) == Undefined

\* the `type` of a new record
CreateType(v) == IF v.t = "string" THEN SplitTypes(v.s) ELSE <<>>

\* newPokemonData as built from the body, before its id and image are known
NewPokemonData(raw) ==
    [id |-> 0,
     name |-> [french |-> Or(Or(Raw(raw, "name.french"),
                                NameFrenchOf(Raw(raw, "name"))),
                             Raw(raw, "name"))],
     type |-> CreateType(Raw(raw, "type")),
     base |-> [k \in StatKeys |-> ParseInt(Or(Raw(raw, BaseField[k]), Num(0)))],
     image |-> <<>>]

\* the identities of the records in a store
Ids(st) == {st[i].id : i \in 1..Len(st)}

MaxOf(S) == CHOOSE m \in S : \A x \in S : x <= m

\* NextId without the increment
NextIdNoIncrement(last) == IF last # 0 THEN last ELSE 1

\* NextId counting from 0 in an empty collection
NextIdZeroBased(last) == IF last # 0 THEN last + 1 ELSE 0

\* lastPokemon ? lastPokemon.id + 1 : 1, with lastPokemon the record of
\* pokemon.findOne().sort({ id: -1 }), here its id (0 when there is none)
NextId(last) == IF last # 0 THEN last + 1 ELSE 1

\* pokemon.findOne().sort({ id: -1 }): the id of the record with the largest id
LastPokemonId(st) == IF st = <<>> THEN 0 ELSE MaxOf(Ids(st))

\* the schema of ./schema/pokemon.js: the French name is required and the six
\* stats are Numbers, to which NaN cannot be cast
Validate(doc) ==
    /\ doc.name.french.t = "string" /\ doc.name.french.s # <<>>
    /\ \A k \in StatKeys : doc.base[k].t = "number"

\* Insert replacing a record that has the document's id
InsertReplace(st, doc) ==
    IF \E i \in 1..Len(st) : st[i].id = doc.id
    THEN [i \in 1..Len(st) |-> IF st[i].id = doc.id THEN doc ELSE st[i]]
    ELSE Append(st, doc)

\* new pokemon(data).save(): the collection with the document appended
Insert(st, doc) == Append(st, doc)

\* the first record a query { id: pokeId } matches, 0 when there is none
FindIndex(st, pokeId) ==
    IF \E i \in 1..Len(st) : st[i].id = pokeId.n
    THEN CHOOSE i \in 1..Len(st) :
             st[i].id = pokeId.n /\ \A j \in 1..(i - 1) : st[j].id # pokeId.n
    ELSE 0

\* a query { id: NaN } cannot be cast to the schema's Number
QueryCastFails(pokeId) == pokeId.t # "number"

\* pokemon.findOneAndDelete({ id: pokeId })
RemoveAt(st, i) == SubSeq(st, 1, i - 1) \o SubSeq(st, i + 1, Len(st))

\* an update set that also copies the id of the form
BuildUpdatesWithId(raw) ==
    LET nameU == IF Truthy(Raw(raw, "name.french"))
                 THEN {<<"name.french", Raw(raw, "name.french")>>} ELSE {}
        statU == {<<BaseField[k], ParseInt(Raw(raw, BaseField[k]))>> :
                     k \in {x \in StatKeys : Truthy(Raw(raw, BaseField[x]))}}
        typeU == IF Truthy(Raw(raw, "type"))
                 THEN {<<"type", IF Raw(raw, "type").t = "string"
                                 THEN SplitTypes(Raw(raw, "type").s)
                                 ELSE Raw(raw, "type")>>} ELSE {}
        idU == IF Truthy(Raw(raw, "id")) THEN {<<"id", ParseInt(Raw(raw, "id"))>>} ELSE {}
    IN  nameU \cup statU \cup typeU \cup idU

\* the partial-update set of a PUT, before its image
BuildUpdates(raw) ==
    LET nameU == IF Truthy(Raw(raw, "name.french"))
                 THEN {<<"name.french", Raw(raw, "name.french")>>} ELSE {}
        statU == {<<BaseField[k], ParseInt(Raw(raw, BaseField[k]))>> :
                     k \in {x \in StatKeys : Truthy(Raw(raw, BaseField[x]))}}
        typeU == IF Truthy(Raw(raw, "type"))
                 THEN {<<"type", IF Raw(raw, "type").t = "string"
                                 THEN SplitTypes(Raw(raw, "type").s)
                                 ELSE Raw(raw, "type")>>} ELSE {}
    IN  nameU \cup statU \cup typeU

\* whether the update set names a path, and the value it gives it
Sets(updates, path) == \E u \in updates : u[1] = path

ValueOf(updates, path) == (CHOOSE u \in updates : u[1] = path)[2]

\* a stat of the update set that cannot be cast to the schema's Number
UpdateCastFails(updates) ==
    \E k \in StatKeys :
        Sets(updates, BaseField[k]) /\ ValueOf(updates, BaseField[k]).t # "number"

\* ApplySet replacing the whole `base` object when a stat is set
ApplySetReplacesBase(doc, updates) ==
    [id |-> doc.id,
     name |-> [french |-> IF Sets(updates, "name.french")
                          THEN ValueOf(updates, "name.french") ELSE doc.name.french],
     type |-> IF Sets(updates, "type") THEN ValueOf(updates, "type") ELSE doc.type,
     base |-> IF \E k \in StatKeys : Sets(updates, BaseField[k])
              THEN [k \in StatKeys |->
                       IF Sets(updates, BaseField[k])
                       THEN ValueOf(updates, BaseField[k]) ELSE Num(0)]
              ELSE doc.base,
     image |-> IF Sets(updates, "image") THEN ValueOf(updates, "image") ELSE doc.image]

\* { $set: updates } applied to one record
ApplySet(doc, updates) ==
    [id |-> IF Sets(updates, "id") /\ ValueOf(updates, "id").t = "number"
            THEN ValueOf(updates, "id").n ELSE doc.id,
     name |-> [french |-> IF Sets(updates, "name.french")
                          THEN ValueOf(updates, "name.french") ELSE doc.name.french],
     type |-> IF Sets(updates, "type") THEN ValueOf(updates, "type") ELSE doc.type,
     base |-> [k \in StatKeys |->
                  IF Sets(updates, BaseField[k])
                  THEN ValueOf(updates, BaseField[k]) ELSE doc.base[k]],
     image |-> IF Sets(updates, "image") THEN ValueOf(updates, "image") ELSE doc.image]

(***************************************************************************)
(* The Asset Store: the files of assets/pokemons, each name with the       *)
(* content it holds (the slot of the request that uploaded it, 0 for the   *)
(* placeholder shipped with the server and for files of earlier runs).     *)
(***************************************************************************)
DefaultFile == <<"default", ".", "png">>

\* fs.existsSync
Exists(fs, name) == name \in DOMAIN fs

\* a file written under a name, replacing what the name held
WriteFile(fs, name, content) ==
    [n \in DOMAIN fs \cup {name} |-> IF n = name THEN content ELSE fs[n]]

\* fs.unlinkSync
Unlink(fs, name) == [n \in DOMAIN fs \ {name} |-> fs[n]]

\* fs.renameSync of an existing file
\* a rename that does not replace a file that exists under the new name
RenameKeepsExisting(fs, from, to) ==
    [n \in (DOMAIN fs \ {from}) \cup {to} |-> IF n = to /\ to \notin DOMAIN fs THEN fs[from] ELSE fs[n]]

Rename(fs, from, to) ==
    [n \in (DOMAIN fs \ {from}) \cup {to} |-> IF n = to THEN fs[from] ELSE fs[n]]

\* CatchCleanup leaving the temp file where it is
CatchCleanupNone(fs, file) == fs

\* if (req.file && fs.existsSync(req.file.path)) fs.unlinkSync(req.file.path)
CatchCleanup(fs, file) ==
    IF file.present /\ Exists(fs, file.path) THEN Unlink(fs, file.path) ELSE fs

\* multer's filename: `temp_${Date.now()}${path.extname(file.originalname)}`
TempName(now, originalname) == <<"temp_">> \o NumToString(now) \o ExtName(originalname)

\* `${id}${extension}` for a number or NaN
\* a final name that drops the extension of the upload
FinalNameNoExtension(id, originalname) ==
    IF id.t = "number" THEN NumToString(id.n) ELSE <<"NaN">>

FinalName(id, originalname) ==
    (IF id.t = "number" THEN NumToString(id.n) ELSE <<"NaN">>) \o ExtName(originalname)

(***************************************************************************)
(* Requests.                                                               *)
(***************************************************************************)
NoFile == [present |-> FALSE, originalname |-> <<>>, path |-> <<>>]

Null ==
    [id |-> 0, name |-> [french |-> Undefined], type |-> <<>>,
     base |-> [k \in StatKeys |-> Undefined], image |-> <<>>]

Idle ==
    [pc |-> "idle", kind |-> "", raw |-> <<>>, file |-> NoFile, id |-> <<>>, last |-> 0,
     p |-> Null, data |-> Null, updates |-> {}, status |-> 0, body |-> Null,
     error |-> "", cause |-> "",
     query |-> Undefined, page |-> 0, totalPages |-> 0, list |-> <<>>]

\* a request that has been answered: what it asked, and the response
Done(q, status, body, error) ==
    [Idle EXCEPT !.pc = "done", !.kind = q.kind, !.raw = q.raw, !.file = q.file,
                 !.id = q.id, !.status = status, !.body = body, !.error = error]

\* a request answered from a catch: the response, and the message of the error caught
Caught(q, status, error, cause) == [Done(q, status, Null, error) EXCEPT !.cause = cause]

\* req.file of an upload received at time `now`
UploadedFile(originalname, now) ==
    [present |-> TRUE, originalname |-> originalname, path |-> TempName(now, originalname)]

\* parseInt(req.params.id, 10)
PokeId(q) == ParseInt(Str(q.id))

Free(r) == req[r].pc \in {"idle", "done"}

\* the slot a new request takes: the lowest free one (slots are interchangeable)
Takes(r) == Free(r) /\ \A o \in DOMAIN req : o < r => ~Free(o)

\* upload.single('image'): the request is received and multer has written its file
Receive(r, P, kind, pc, ids) ==
    /\ Takes(r)
    /\ nreq < P.max
    /\ \E raw \in P.forms, id \in ids, up \in P.uploads :
           /\ req' = [req EXCEPT ![r] =
                         [Idle EXCEPT !.kind = kind, !.pc = pc, !.raw = raw, !.id = id,
                                      !.file = IF up.present
                                               THEN UploadedFile(up.originalname, up.now)
                                               ELSE NoFile]]
           /\ files' = IF up.present
                       THEN WriteFile(files, TempName(up.now, up.originalname), r)
                       ELSE files
    /\ nreq' = nreq + 1
    /\ UNCHANGED <<store, deleted>>

\* POST /pokemons
ReceiveCreate(r, P) == Receive(r, P, "POST", "c_find", {<<>>})

\* PUT /pokemons/:id
ReceiveUpdate(r, P) == Receive(r, P, "PUT", "u_bind", P.ids)

\* DELETE /pokemons/:id: no upload middleware, no form
ReceiveDelete(r, P) ==
    /\ Takes(r)
    /\ nreq < P.max
    /\ \E id \in P.ids : req' = [req EXCEPT ![r] = [Idle EXCEPT !.kind = "DELETE", !.pc = "d_find", !.id = id]]
    /\ nreq' = nreq + 1
    /\ UNCHANGED <<store, files, deleted>>

\* a catch of POST that also removes the asset the upload was renamed to
CreateCatchCompensates(r, message) ==
    LET renamed == FinalName(Num(req[r].data.id), req[r].file.originalname)
        fs == CatchCleanup(files, req[r].file)
    IN  /\ files' = IF req[r].pc = "c_save" /\ req[r].file.present /\ Exists(fs, renamed)
                    THEN Unlink(fs, renamed) ELSE fs
        /\ req' = [req EXCEPT ![r] = Caught(req[r], 400, message, message)]
        /\ UNCHANGED <<store, nreq, deleted>>

\* the catch of POST: the temp upload is removed and the error answered with 400
CreateCatch(r, message) ==
    /\ files' = CatchCleanup(files, req[r].file)
    /\ req' = [req EXCEPT ![r] = Caught(req[r], 400, message, message)]
    /\ UNCHANGED <<store, nreq, deleted>>

\* the catch of PUT: the temp upload is removed and the error answered with 500
UpdateCatch(r, message) ==
    /\ files' = CatchCleanup(files, req[r].file)
    /\ req' = [req EXCEPT ![r] = Caught(req[r], 500, message, message)]
    /\ UNCHANGED <<store, nreq, deleted>>

\* pokemon.findOne().sort({ id: -1 }) is executed
CreateFind(r) ==
    /\ req[r].pc = "c_find"
    /\ req' = [req EXCEPT ![r].pc = "c_bind", ![r].last = LastPokemonId(store)]
    /\ UNCHANGED <<store, files, nreq, deleted>>

CreateFindFails(r) ==
    /\ req[r].pc = "c_find"
    /\ CreateCatch(r, "store error")

\* the id is allocated and, with no upload, the placeholder bound
CreateBindDefault(r) ==
    /\ req[r].pc = "c_bind"
    /\ ~req[r].file.present
    /\ req' = [req EXCEPT ![r].pc = "c_save",
                          ![r].data = [NewPokemonData(req[r].raw) EXCEPT
                                          !.id = NextId(req[r].last),
                                          !.image = DefaultImage]]
    /\ UNCHANGED <<store, files, nreq, deleted>>

\* the id is allocated and the upload renamed to <id><extension>
CreateBindFile(r) ==
    LET id == NextId(req[r].last)
        finalName == FinalName(Num(id), req[r].file.originalname)
    IN  /\ req[r].pc = "c_bind"
        /\ req[r].file.present
        /\ Exists(files, req[r].file.path)
        /\ files' = Rename(files, req[r].file.path, finalName)
        /\ req' = [req EXCEPT ![r].pc = "c_save",
                              ![r].data = [NewPokemonData(req[r].raw) EXCEPT
                                              !.id = id, !.image = ImageUrl(finalName)]]
        /\ UNCHANGED <<store, nreq, deleted>>

\* fs.renameSync throws: the temp file is gone, or the file system fails
CreateBindFails(r) ==
    /\ req[r].pc = "c_bind"
    /\ req[r].file.present
    /\ CreateCatch(r, "rename error")

\* new pokemon(newPokemonData).save() is executed and answered with 201
CreateSave(r) ==
    /\ req[r].pc = "c_save"
    /\ Validate(req[r].data)
    /\ store' = Insert(store, req[r].data)
    /\ req' = [req EXCEPT ![r] = Done(req[r], 201, req[r].data, "")]
    /\ UNCHANGED <<files, nreq, deleted>>

\* save() rejects: the schema's validation, or the store fails
CreateSaveFails(r) ==
    /\ req[r].pc = "c_save"
    /\ CreateCatch(r, IF Validate(req[r].data) THEN "store error" ELSE "validation error")

\* PUT: the update set is built; there is no upload to bind
UpdateBindNone(r) ==
    /\ req[r].pc = "u_bind"
    /\ ~req[r].file.present
    /\ req' = [req EXCEPT ![r].pc = "u_exec", ![r].updates = BuildUpdates(req[r].raw)]
    /\ UNCHANGED <<store, files, nreq, deleted>>

\* an image binding of PUT that also removes the asset the record referenced
UpdateBindFileReplacing(r) ==
    LET finalName == FinalName(PokeId(req[r]), req[r].file.originalname)
        i == FindIndex(store, PokeId(req[r]))
        renamed == Rename(files, req[r].file.path, finalName)
        previous == SplitAssetDir1(store[i].image)
    IN  /\ req[r].pc = "u_bind"
        /\ req[r].file.present
        /\ Exists(files, req[r].file.path)
        /\ files' = IF i # 0 /\ IncludesAssetDir(store[i].image) /\ previous # finalName
                       /\ Exists(renamed, previous)
                    THEN Unlink(renamed, previous) ELSE renamed
        /\ req' = [req EXCEPT ![r].pc = "u_exec",
                              ![r].updates = BuildUpdates(req[r].raw)
                                                 \cup {<<"image", ImageUrl(finalName)>>}]
        /\ UNCHANGED <<store, nreq, deleted>>

\* PUT: the update set is built and the upload renamed to <pokeId><extension>
UpdateBindFile(r) ==
    LET finalName == FinalName(PokeId(req[r]), req[r].file.originalname)
    IN  /\ req[r].pc = "u_bind"
        /\ req[r].file.present
        /\ Exists(files, req[r].file.path)
        /\ files' = Rename(files, req[r].file.path, finalName)
        /\ req' = [req EXCEPT ![r].pc = "u_exec",
                              ![r].updates = BuildUpdates(req[r].raw)
                                                 \cup {<<"image", ImageUrl(finalName)>>}]
        /\ UNCHANGED <<store, nreq, deleted>>

\* PUT: fs.renameSync throws
UpdateBindFails(r) ==
    /\ req[r].pc = "u_bind"
    /\ req[r].file.present
    /\ UpdateCatch(r, "rename error")

\* pokemon.findOneAndUpdate({ id: pokeId }, { $set: updates }, { new: true }) is
\* executed and answered: 200 with the updated record, 404 when none matches
UpdateExec(r) ==
    LET i == FindIndex(store, PokeId(req[r]))
        updated == ApplySet(store[i], req[r].updates)
    IN  /\ req[r].pc = "u_exec"
        /\ ~QueryCastFails(PokeId(req[r]))
        /\ ~UpdateCastFails(req[r].updates)
        /\ IF i = 0
           THEN /\ req' = [req EXCEPT ![r] = Done(req[r], 404, Null, "Introuvable")]
                /\ store' = store
           ELSE /\ req' = [req EXCEPT ![r] = Done(req[r], 200, updated, "")]
                /\ store' = [store EXCEPT ![i] = updated]
        /\ UNCHANGED <<files, nreq, deleted>>

\* findOneAndUpdate rejects: a value that cannot be cast, or the store fails
UpdateExecFails(r) ==
    /\ req[r].pc = "u_exec"
    /\ UpdateCatch(r, IF QueryCastFails(PokeId(req[r])) \/ UpdateCastFails(req[r].updates)
                      THEN "cast error" ELSE "store error")

\* the catch of DELETE: the error is answered with 500 and a fixed message
DeleteCatch(r, message) ==
    /\ req' = [req EXCEPT ![r] = Caught(req[r], 500, "Erreur serveur", message)]
    /\ UNCHANGED <<store, nreq, deleted>>

\* DELETE: pokemon.findOne({ id: pokeId }) is executed
DeleteFind(r) ==
    LET i == FindIndex(store, PokeId(req[r]))
    IN  /\ req[r].pc = "d_find"
        /\ ~QueryCastFails(PokeId(req[r]))
        /\ req' = [req EXCEPT ![r].pc = "d_image",
                              ![r].p = IF i = 0 THEN Null ELSE store[i]]
        /\ UNCHANGED <<store, files, nreq, deleted>>

DeleteFindFails(r) ==
    /\ req[r].pc = "d_find"
    /\ DeleteCatch(r, IF QueryCastFails(PokeId(req[r])) THEN "cast error" ELSE "store error")
    /\ UNCHANGED files

\* DELETE: if (!p) return 404
DeleteNotFound(r) ==
    /\ req[r].pc = "d_image"
    /\ req[r].p = Null
    /\ req' = [req EXCEPT ![r] = Done(req[r], 404, Null, "Introuvable")]
    /\ UNCHANGED <<store, files, nreq, deleted>>

\* whether the record's image is taken for a local one, and the file it names
IsLocalImage(p) == p.image # <<>> /\ IncludesAssetDir(p.image)

\* DELETE: the image file of the record is removed when it is local and exists
DeleteImage(r) ==
    LET p == req[r].p
    IN  /\ req[r].pc = "d_image"
        /\ p # Null
        /\ files' = IF IsLocalImage(p) /\ Exists(files, SplitAssetDir1(p.image))
                    THEN Unlink(files, SplitAssetDir1(p.image))
                    ELSE files
        /\ req' = [req EXCEPT ![r].pc = "d_delete"]
        /\ UNCHANGED <<store, nreq, deleted>>

\* DELETE: fs.unlinkSync throws
DeleteImageFails(r) ==
    LET p == req[r].p
    IN  /\ req[r].pc = "d_image"
        /\ p # Null
        /\ IsLocalImage(p) /\ Exists(files, SplitAssetDir1(p.image))
        /\ DeleteCatch(r, "unlink error")
        /\ UNCHANGED files

\* DELETE: pokemon.findOneAndDelete({ id: pokeId }) is executed and answered
DeleteExec(r) ==
    LET i == FindIndex(store, PokeId(req[r]))
    IN  /\ req[r].pc = "d_delete"
        /\ store' = IF i = 0 THEN store ELSE RemoveAt(store, i)
        /\ deleted' = IF i = 0 THEN deleted ELSE deleted \cup {store[i].id}
        /\ req' = [req EXCEPT ![r] = Done(req[r], 200, Null, "Supprime avec succes")]
        /\ UNCHANGED <<files, nreq>>

DeleteExecFails(r) ==
    /\ req[r].pc = "d_delete"
    /\ DeleteCatch(r, "store error")
    /\ UNCHANGED files

(***************************************************************************)
(* The read handlers: GET /pokemons, GET /pokemons/search, GET             *)
(* /pokemons/:id.  They read the Record Store and change nothing.          *)
(***************************************************************************)
\* const limit = 20
PageLimit == 20

\* a skip that leaves out the page asked for as well
ListSkipNoOffset(page) == page * PageLimit

\* const skip = (page - 1) * limit
ListSkip(page) == (page - 1) * PageLimit

\* Math.ceil(total / limit), for total >= 0
CeilDiv(total, limit) == (total + limit - 1) \div limit

\* find({}).skip(skip).limit(limit) on a store, for skip >= 0
FindPage(st, skip, limit) ==
    SubSeq(st, skip + 1, IF skip + limit < Len(st) THEN skip + limit ELSE Len(st))

\* the letters of the model that have a lower-case form
Lower == [P |-> "p", I |-> "i", A |-> "a", B |-> "b"]

ToLower(c) == IF c \in DOMAIN Lower THEN Lower[c] ELSE c

\* new RegExp(query): of the metacharacters the model has "." and "(", and a
\* pattern with a "(" that no ")" closes does not compile
RegexInvalid(query) ==
    \E k \in 1..Len(query) :
        query[k] = "(" /\ ~\E j \in (k + 1)..Len(query) : query[j] = ")"

\* the pattern, read with option i, matches s at position i: "." matches any
\* character, every other atom matches itself in either case
RegexMatchesAt(query, s, i) ==
    /\ i + Len(query) - 1 <= Len(s)
    /\ \A k \in 1..Len(query) :
           query[k] = "." \/ ToLower(query[k]) = ToLower(s[i + k - 1])

\* { $regex: query, $options: 'i' } on a field: an unanchored match, of a string
RegexMatches(query, v) ==
    v.t = "string" /\ \E i \in 1..(Len(v.s) + 1) : RegexMatchesAt(query, v.s, i)

\* find({ 'name.french': { $regex: query, $options: 'i' } })
FindByName(st, query) == SelectSeq(st, LAMBDA p : RegexMatches(query, p.name.french))

\* the answer of a read handler
Answer(q, status, body, list, page, totalPages) ==
    [Done(q, status, body, "") EXCEPT !.query = q.query, !.list = list,
                                         !.page = page, !.totalPages = totalPages]

\* the catch of the read handlers: 500 and a fixed message
ReadCatch(r, message) ==
    /\ req' = [req EXCEPT ![r] = [Caught(req[r], 500, "Erreur serveur", message)
                                     EXCEPT !.query = req[r].query]]
    /\ UNCHANGED <<store, files, nreq, deleted>>

\* a read request arrives; `query` is the parameter of the query string it reads
ReceiveRead(r, max, kind, pc, id, query) ==
    /\ Takes(r)
    /\ nreq < max
    /\ req' = [req EXCEPT ![r] = [Idle EXCEPT !.kind = kind, !.pc = pc, !.id = id,
                                               !.query = query]]
    /\ nreq' = nreq + 1
    /\ UNCHANGED <<store, files, deleted>>

\* GET /pokemons up to the first await: page and skip
ReceiveList(r, P) ==
    \E page \in P.pages :
        ReceiveRead(r, P.max, "LIST", "l_find", <<>>, page)

\* const page = parseInt(req.query.page) || 1
PageOf(q) == Or(ParseInt(q.query), Num(1)).n

\* the page is read, then the count is awaited
ListFind(r) ==
    LET page == PageOf(req[r])
    IN  /\ req[r].pc = "l_find"
        /\ ListSkip(page) >= 0
        /\ req' = [req EXCEPT ![r].pc = "l_count", ![r].page = page,
                              ![r].list = FindPage(store, ListSkip(page), PageLimit)]
        /\ UNCHANGED <<store, files, nreq, deleted>>

\* the store rejects a negative skip, or fails
ListFindFails(r) ==
    /\ req[r].pc = "l_find"
    /\ ReadCatch(r, IF ListSkip(PageOf(req[r])) < 0 THEN "skip error" ELSE "store error")

\* countDocuments() and the answer
ListCount(r) ==
    /\ req[r].pc = "l_count"
    /\ req' = [req EXCEPT ![r] = Answer(req[r], 200, Null, req[r].list, req[r].page,
                                        CeilDiv(Len(store), PageLimit))]
    /\ UNCHANGED <<store, files, nreq, deleted>>

ListCountFails(r) ==
    /\ req[r].pc = "l_count"
    /\ ReadCatch(r, "store error")

\* const query = req.query.q || ''
SearchQuery(q) == Or(q, Str(<<>>)).s

\* GET /pokemons/search with a blank query: answered [] before any await
ReceiveSearchBlank(r, P) ==
    \E q \in P.queries :
        /\ Trim(SearchQuery(q)) = <<>>
        /\ Takes(r)
        /\ nreq < P.max
        /\ req' = [req EXCEPT ![r] =
                      Answer([Idle EXCEPT !.kind = "SEARCH", !.query = q], 200, Null, <<>>, 0, 0)]
        /\ nreq' = nreq + 1
        /\ UNCHANGED <<store, files, deleted>>

\* GET /pokemons/search with a query that is not blank, up to the await
ReceiveSearch(r, P) ==
    \E q \in P.queries :
        /\ Trim(SearchQuery(q)) # <<>>
        /\ ReceiveRead(r, P.max, "SEARCH", "s_find", <<>>, q)

SearchFind(r) ==
    /\ req[r].pc = "s_find"
    /\ ~RegexInvalid(SearchQuery(req[r].query))
    /\ req' = [req EXCEPT ![r] = Answer(req[r], 200, Null,
                                        FindByName(store, SearchQuery(req[r].query)), 0, 0)]
    /\ UNCHANGED <<store, files, nreq, deleted>>

\* the pattern does not compile, or the store fails
SearchFindFails(r) ==
    /\ req[r].pc = "s_find"
    /\ ReadCatch(r, IF RegexInvalid(SearchQuery(req[r].query))
                    THEN "regex error" ELSE "store error")

\* GET /pokemons/:id up to the await
ReceiveGet(r, P) ==
    \E id \in P.ids : ReceiveRead(r, P.max, "GET", "g_find", id, Undefined)

\* findOne({ id: pokeId }) and the answer
GetFind(r) ==
    LET i == FindIndex(store, PokeId(req[r]))
    IN  /\ req[r].pc = "g_find"
        /\ ~QueryCastFails(PokeId(req[r]))
        /\ req' = [req EXCEPT ![r] = IF i = 0
                                     THEN Done(req[r], 404, Null, "Non trouve")
                                     ELSE Done(req[r], 200, store[i], "")]
        /\ UNCHANGED <<store, files, nreq, deleted>>

GetFindFails(r) ==
    /\ req[r].pc = "g_find"
    /\ ReadCatch(r, IF QueryCastFails(PokeId(req[r])) THEN "cast error" ELSE "store error")

(***************************************************************************)
(* Inputs.                                                                 *)
(***************************************************************************)
\* the request slots: tasks that may be in flight together
Slots == {1, 2}

\* req.params.id
IdParams == {NumToString(i) : i \in 1..MaxIdParam}

NoUpload == [present |-> FALSE, originalname |-> <<>>, now |-> 0]

Upload(originalname, now) == [present |-> TRUE, originalname |-> originalname, now |-> now]

Png == <<"a", ".", "png">>

Jpg == <<"b", ".", "jpg">>

\* a body with a name
NameForm == "name.french" :> Str(<<"P">>)

\* a body with a name under the field `name`, a type list and an id of the caller's
FullForm ==
    "name" :> Str(<<"Q">>) @@ "type" :> Str(<<"a", ",", " ", "b">>) @@ "id" :> Str(<<"7">>)

\* interleaved requests: one body, uploads of one extension at any time
Profile ==
    [forms |-> {NameForm},
     uploads |-> {NoUpload} \cup {Upload(Png, t) : t \in 1..MaxTime},
     ids |-> IdParams,
     max |-> MaxReq]

\* requests one at a time: an empty body too (which the schema rejects on create),
\* uploads of two extensions
SerialProfile ==
    [forms |-> {NameForm, FullForm, <<>>},
     uploads |-> {NoUpload, Upload(Png, 1), Upload(Jpg, 1)},
     ids |-> IdParams,
     max |-> MaxSerialReq]

\* what a stat field of a body may hold: strings of a multipart form, and the
\* number 0 of a JSON body
StatValues ==
    {Str(<<>>), Str(<<"0">>), Str(<<"5">>), Str(<<"-", "3">>), Str(<<"x">>), Num(0)}

\* bodies with one stat field, alone or beside a name
StatForms ==
    {BaseField[k] :> v : k \in StatKeys, v \in StatValues}
        \cup {NameForm @@ BaseField[k] :> v : k \in StatKeys, v \in StatValues}

\* requests one at a time, without uploads: the fields of the body
FieldProfile ==
    [forms |-> StatForms \cup {NameForm, FullForm},
     uploads |-> {NoUpload},
     ids |-> IdParams,
     max |-> MaxFieldReq]

\* names given to the records of a seeded collection
SeedNames == << <<"P", "i", "k", "a">>, <<"p", "i", "x">>, <<"A", "b", "o">> >>

\* the i-th record of a seeded collection: what the i-th Create of a run of
\* Creates without uploads has stored
SeedRecord(i) ==
    [NewPokemonData("name.french" :> Str(SeedNames[(i % Len(SeedNames)) + 1]))
        EXCEPT !.id = i, !.image = DefaultImage]

SeedStore(n) == [i \in 1..n |-> SeedRecord(i)]

\* req.query.page
Pages ==
    {Undefined, Str(<<"x">>), Str(<<"0">>), Str(<<"-", "1">>)}
        \cup {Str(NumToString(p)) : p \in 1..MaxPage}

\* req.query.q
Queries ==
    {Undefined, Str(<<>>), Str(<<" ">>), Str(<<"p", "i">>), Str(<<"P", "I">>),
     Str(<<"b", "o">>), Str(<<"z">>), Str(<<".">>), Str(<<"i", ".", "a">>), Str(<<"(">>)}

\* read requests, one at a time
ReadProfile == [pages |-> Pages, queries |-> Queries, ids |-> IdParams, max |-> MaxReadReq]

\* a body with another name
OtherNameForm == "name.french" :> Str(<<"R">>)

\* racing Updates of record 1, each with a name and a png upload
UpdatesProfile ==
    [forms |-> {NameForm, OtherNameForm},
     uploads |-> {Upload(Png, t) : t \in 1..MaxTime},
     ids |-> {<<"1">>},
     max |-> MaxUpdateReq]

(***************************************************************************)
(* Specifications.                                                         *)
(***************************************************************************)
\* an empty collection; assets/pokemons holds the placeholder that the default
\* image reference names
Init ==
    /\ store = <<>>
    /\ files = DefaultFile :> 0
    /\ req = [r \in Slots |-> Idle]
    /\ nreq = 0
    /\ deleted = {}

Step(r, P) ==
    \/ ReceiveCreate(r, P)
    \/ ReceiveUpdate(r, P)
    \/ ReceiveDelete(r, P)
    \/ CreateFind(r)
    \/ CreateFindFails(r)
    \/ CreateBindDefault(r)
    \/ CreateBindFile(r)
    \/ CreateBindFails(r)
    \/ CreateSave(r)
    \/ CreateSaveFails(r)
    \/ UpdateBindNone(r)
    \/ UpdateBindFile(r)
    \/ UpdateBindFails(r)
    \/ UpdateExec(r)
    \/ UpdateExecFails(r)
    \/ DeleteFind(r)
    \/ DeleteFindFails(r)
    \/ DeleteNotFound(r)
    \/ DeleteImage(r)
    \/ DeleteImageFails(r)
    \/ DeleteExec(r)
    \/ DeleteExecFails(r)

\* requests of any kind, interleaved
Next == \E r \in Slots : Step(r, Profile)

Spec == Init /\ [][Next]_vars

\* requests of any kind, each running to completion before the next is received
NextSerial == Step(1, SerialProfile)

SpecSerial == Init /\ [][NextSerial]_vars

\* POST and PUT requests without uploads, one at a time
NextFields ==
    \/ ReceiveCreate(1, FieldProfile)
    \/ ReceiveUpdate(1, FieldProfile)
    \/ CreateFind(1)
    \/ CreateFindFails(1)
    \/ CreateBindDefault(1)
    \/ CreateSave(1)
    \/ CreateSaveFails(1)
    \/ UpdateBindNone(1)
    \/ UpdateExec(1)
    \/ UpdateExecFails(1)

SpecFields == Init /\ [][NextFields]_vars

\* a collection of up to MaxRecords records, as a run of Creates has left it
InitRead ==
    /\ store \in {SeedStore(n) : n \in 0..MaxRecords}
    /\ files = DefaultFile :> 0
    /\ req = [r \in Slots |-> Idle]
    /\ nreq = 0
    /\ deleted = {}

\* List, Search and Get requests, one at a time
NextRead ==
    \/ ReceiveList(1, ReadProfile)
    \/ ListFind(1)
    \/ ListFindFails(1)
    \/ ListCount(1)
    \/ ListCountFails(1)
    \/ ReceiveSearchBlank(1, ReadProfile)
    \/ ReceiveSearch(1, ReadProfile)
    \/ SearchFind(1)
    \/ SearchFindFails(1)
    \/ ReceiveGet(1, ReadProfile)
    \/ GetFind(1)
    \/ GetFindFails(1)

SpecRead == InitRead /\ [][NextRead]_vars

\* record 1 as an earlier Create with a png upload has left it, with its asset
InitUpdates ==
    /\ store = <<[SeedRecord(1) EXCEPT !.image = ImageUrl(<<"1", ".", "png">>)]>>
    /\ files = DefaultFile :> 0 @@ <<"1", ".", "png">> :> 0
    /\ req = [r \in Slots |-> Idle]
    /\ nreq = 0
    /\ deleted = {}

\* Updates with uploads, interleaved
NextUpdates ==
    \E r \in Slots :
        \/ ReceiveUpdate(r, UpdatesProfile)
        \/ UpdateBindFile(r)
        \/ UpdateBindFails(r)
        \/ UpdateExec(r)
        \/ UpdateExecFails(r)

SpecUpdates == InitUpdates /\ [][NextUpdates]_vars

(***************************************************************************)
(* Properties.                                                             *)
(***************************************************************************)
\* the number of records of a store with an identity
Count(st, id) == Cardinality({i \in 1..Len(st) : st[i].id = id})

\* an image reference to an uploaded asset: into the asset area, not the placeholder
IsUploadedImage(image) == IncludesAssetDir(image) /\ image # DefaultImage

\* a request answered with an error
Failed(q) == q.pc = "done" /\ q.status \in {400, 404, 500}

\* a request answered with a success of its kind
Created(q) == q.pc = "done" /\ q.kind = "POST" /\ q.status = 201

Updated(q) == q.pc = "done" /\ q.kind = "PUT" /\ q.status = 200

\* C1: with requests executed one at a time, the Record Store never holds two
\* records with the same identity.
IdentitiesUnique ==
    \A i, j \in 1..Len(store) : store[i].id = store[j].id => i = j

\* two records are stored, one created after the other
TwoRecordsStored == Len(store) >= 2 /\ IdentitiesUnique

\* C2: a Create that persists adds its record whether or not the store already holds
\* a record with the identity it allocated, so of two interleaved Creates that read
\* the same maximum both persist and two records share one identity.
RacingCreatesBothPersist ==
    [][\A r \in Slots :
          (req[r].pc = "c_save" /\ Created(req'[r]))
          => /\ req'[r].body.id = NextId(req[r].last)
             /\ Count(store', req'[r].body.id) = Count(store, req'[r].body.id) + 1]_vars

\* two Creates have both read the maximum before either persisted, and both persisted
RacingCreatesCollide ==
    \E r1, r2 \in Slots :
        /\ r1 # r2 /\ Created(req[r1]) /\ Created(req[r2])
        /\ req[r1].body.id = req[r2].body.id
        /\ \E i, j \in 1..Len(store) : i # j /\ store[i].id = store[j].id

\* C3 (as claimed): no record of the store has the identity of a record that was
\* deleted, whichever record that was.
IdentityNeverReused == \A i \in 1..Len(store) : store[i].id \notin deleted

\* C4 (as claimed): in every state, every record whose image reference names an
\* uploaded asset has its file in the Asset Store.
UploadedImageHasFile ==
    \A i \in 1..Len(store) :
        IsUploadedImage(store[i].image) => Exists(files, SplitAssetDir1(store[i].image))

\* C5 (as claimed): a Delete of a record with an uploaded image removes that file; a
\* Delete of a record with the placeholder reference leaves the files as they are.
DeleteFileEffect ==
    [][\A r \in Slots :
          (req[r].pc = "d_image" /\ req'[r].pc = "d_delete")
          => IF req[r].p.image = DefaultImage
             THEN files' = files
             ELSE ~Exists(files', SplitAssetDir1(req[r].p.image))]_vars

\* C6: once a Create or Update that carried an upload has been answered with an error,
\* the temp file that request uploaded is no longer in the upload area.
TempFileRemoved ==
    \A r \in Slots :
        (Failed(req[r]) /\ req[r].file.present)
        => ~(Exists(files, req[r].file.path) /\ files[req[r].file.path] = r)

\* a Create with an upload has been answered with an error
UploadFailed ==
    \E r \in Slots :
        /\ Failed(req[r]) /\ req[r].file.present /\ req[r].kind = "POST"
        /\ ~Exists(files, req[r].file.path)

\* C7: with requests executed one at a time, the record a successful Create returns
\* has identity 1 + the maximum identity of the records stored before it, and 1 when
\* there was none, whatever the body says.
CreatedIdentityIsMaxPlusOne ==
    \A r \in Slots :
        Created(req[r])
        => /\ Len(store) >= 1
           /\ store[Len(store)] = req[r].body
           /\ LET before == SubSeq(store, 1, Len(store) - 1)
              IN  req[r].body.id = IF before = <<>> THEN 1 ELSE MaxOf(Ids(before)) + 1

\* a Create whose body names an id of its own has been given the identity 2
CreatedSecondIgnoringBodyId ==
    \E r \in Slots :
        /\ Created(req[r]) /\ req[r].body.id = 2
        /\ Raw(req[r].raw, "id") = Str(<<"7">>)

\* C8: an Update whose body holds only base.HP, without an image, changes the HP of
\* the record it names and nothing else of the store.
UpdateOfHPOnly ==
    [][\A r \in Slots :
          (/\ req[r].pc = "u_exec" /\ Updated(req'[r])
           /\ DOMAIN req[r].raw = {"base.HP"} /\ ~req[r].file.present)
          => LET i == FindIndex(store, PokeId(req[r]))
                 hp == Raw(req[r].raw, "base.HP")
             IN  /\ Len(store') = Len(store)
                 /\ \A j \in 1..Len(store) : j # i => store'[j] = store[j]
                 /\ store'[i] = [store[i] EXCEPT !.base.HP = store'[i].base.HP]
                 /\ req'[r].body = store'[i]
                 /\ store'[i].base.HP = IF Truthy(hp) THEN ParseInt(hp)
                                        ELSE store[i].base.HP]_vars

\* an Update with only base.HP has set the HP of a record whose Attack is not 0
HPUpdatedBesideAttack ==
    \E r \in Slots :
        /\ Updated(req[r])
        /\ DOMAIN req[r].raw = {"base.HP"}
        /\ req[r].body.base.HP = Num(5)
        /\ req[r].body.base.Attack = Num(5)

\* C9 (as claimed): an Update that supplies the form string "0" for a stat does not
\* put the stat in its update set.
ZeroStringLeftOut ==
    \A r \in Slots :
        req[r].pc = "u_exec"
        => \A k \in StatKeys :
               Raw(req[r].raw, BaseField[k]) = Str(<<"0">>)
               => ~Sets(req[r].updates, BaseField[k])

\* C9 (amended): an Update that supplies the form string "0" for a stat sets the
\* stored stat to 0; one that supplies no value, the empty string or the number 0
\* leaves the stored stat as it was.
ZeroStringSetsZero ==
    [][\A r \in Slots, k \in StatKeys :
          (req[r].pc = "u_exec" /\ Updated(req'[r]))
          => LET i == FindIndex(store, PokeId(req[r]))
                 v == Raw(req[r].raw, BaseField[k])
             IN  /\ v = Str(<<"0">>) => store'[i].base[k] = Num(0)
                 /\ v \in {Undefined, Str(<<>>), Num(0)}
                        => store'[i].base[k] = store[i].base[k]]_vars

\* an Update with the form string "0" for a stat has been answered with the stat at 0
ZeroStringUpdated ==
    \E r \in Slots, k \in StatKeys :
        /\ Updated(req[r])
        /\ Raw(req[r].raw, BaseField[k]) = Str(<<"0">>)
        /\ req[r].body.base[k] = Num(0)

\* C10 (as claimed): the six stats of every stored record are non-negative integers.
StatsNonNegative ==
    \A i \in 1..Len(store), k \in StatKeys :
        store[i].base[k].t = "number" /\ store[i].base[k].n >= 0

\* C11: a successful Create without an attachment stores and answers a record
\* whose image is the default placeholder URL; a successful Create with an
\* attachment stores and answers a record whose image names
\* <assigned id><extension of the upload>, and right after the answer a file of
\* exactly that name, holding the uploaded content, exists in the asset store.
CreatedImageReference ==
    \A r \in Slots :
        Created(req[r])
        => LET q == req[r]
               name == NumToString(q.body.id) \o ExtName(q.file.originalname)
           IN  /\ store[Len(store)] = q.body
               /\ IF q.file.present
                  THEN /\ q.body.image = <<Host, AssetDir>> \o name
                       /\ name \in DOMAIN files
                       /\ files[name] = r
                       /\ q.file.path \notin DOMAIN files
                  ELSE q.body.image = DefaultImage

\* a second Create, with a jpg attachment, has answered 201 with id 2 and 2.jpg
CreatedSecondWithUpload ==
    \E r \in Slots :
        /\ Created(req[r]) /\ req[r].file.present /\ req[r].body.id = 2
        /\ req[r].body.image = <<Host, AssetDir, "2", ".", "jpg">>
        /\ <<"2", ".", "jpg">> \in DOMAIN files

\* messages of the errors thrown by the store and by the file system
StoreOrFileErrors == {"store error", "rename error", "unlink error"}

\* C12: every request that met a store or file-system failure is answered with
\* status 500 and a generic message that is not the message of the error caught.
FailuresAnsweredGenerically ==
    \A r \in Slots :
        (req[r].pc = "done" /\ req[r].cause \in StoreOrFileErrors)
        => /\ req[r].status = 500
           /\ req[r].error = "Erreur serveur"
           /\ req[r].error # req[r].cause

\* C15: when a Create with an upload fails at the save, after the upload has been
\* renamed to <id><ext>, the error answer leaves the renamed file in the asset
\* store, and the request has stored no record: the store is as before and holds
\* no record of that id.
CreateFailureKeepsRenamedFile ==
    [][\A r \in Slots :
          (/\ req[r].pc = "c_save" /\ req[r].file.present
           /\ req'[r].pc = "done" /\ req'[r].status # 201)
          => LET name == NumToString(req[r].data.id) \o ExtName(req[r].file.originalname)
             IN  /\ req'[r].status = 400
                 /\ name \in DOMAIN files /\ name \in DOMAIN files'
                 /\ files' = files
                 /\ store' = store
                 /\ \A i \in 1..Len(store') : store'[i].id # req[r].data.id]_vars

\* the first request, a Create with a png upload, failed at the save: 1.png is
\* in the asset store and the store is empty
CreateFailedAfterRename ==
    \E r \in Slots :
        /\ nreq = 1 /\ req[r].pc = "done" /\ req[r].kind = "POST" /\ req[r].status = 400
        /\ req[r].file.present
        /\ <<"1", ".", "png">> \in DOMAIN files
        /\ store = <<>>

\* C16: an Update with a new image removes no asset but its own temp upload, so
\* when the record's current local asset has another name (another extension)
\* both <id><old ext> and <id><new ext> exist once the Update has answered; and
\* a Delete removes at most the file the record references at that time, so the
\* asset of the old extension stays in the asset store.
UpdateKeepsPreviousAsset ==
    [][\A r \in Slots :
          /\ (req[r].pc = "u_bind" /\ req'[r].pc = "u_exec")
             => \A n \in DOMAIN files \ {req[r].file.path} : n \in DOMAIN files'
          /\ (req[r].pc = "u_exec" /\ req[r].file.present /\ Updated(req'[r]))
             => LET i == FindIndex(store, PokeId(req[r]))
                    previous == SplitAssetDir1(store[i].image)
                    current == NumToString(store[i].id) \o ExtName(req[r].file.originalname)
                IN  /\ store'[i].image = <<Host, AssetDir>> \o current
                    /\ current \in DOMAIN files'
                    /\ (IsLocalImage(store[i]) /\ previous \in DOMAIN files)
                       => previous \in DOMAIN files'
          /\ (req[r].kind = "DELETE" /\ req[r].pc \in {"d_find", "d_image", "d_delete"})
             => \A n \in DOMAIN files \ DOMAIN files' :
                    /\ req[r].pc = "d_image"
                    /\ req[r].p.image = <<Host, AssetDir>> \o n]_vars

\* after Create with a png, Update with a jpg and Delete, the record is gone,
\* 1.jpg has been removed and 1.png is left in the asset store
PreviousAssetOrphaned ==
    \E r \in Slots :
        /\ nreq = 3 /\ req[r].pc = "done" /\ req[r].kind = "DELETE" /\ req[r].status = 200
        /\ store = <<>> /\ deleted = {1}
        /\ <<"1", ".", "png">> \in DOMAIN files
        /\ <<"1", ".", "jpg">> \notin DOMAIN files

\* C17: no step of an Update, whatever its form fields and image, changes the
\* identity of any stored record: the store keeps its length and every position
\* keeps its id, and the record an Update answers has the id of the request path.
UpdateKeepsIdentities ==
    [][\A r \in Slots :
          (req[r].kind = "PUT" /\ req[r].pc \in {"u_bind", "u_exec"} /\ req'[r] # req[r])
          => /\ Len(store') = Len(store)
             /\ \A i \in 1..Len(store) : store'[i].id = store[i].id
             /\ Updated(req'[r])
                => /\ PokeId(req[r]) = Num(req'[r].body.id)
                   /\ store'[FindIndex(store, PokeId(req[r]))] = req'[r].body]_vars

\* an Update whose form carries id=7 and a type has answered with the type set
\* and the record still under id 1
UpdatedWithBodyId ==
    \E r \in Slots :
        /\ Updated(req[r]) /\ Raw(req[r].raw, "id") = Str(<<"7">>)
        /\ req[r].id = <<"1">>
        /\ req[r].body.id = 1 /\ req[r].body.type = <<<<"a">>, <<"b">>>>
        /\ Ids(store) = {1}

\* C18: an Update whose target identity has no record leaves the state as it
\* was: no step of it changes the store, and none adds to the asset store a file
\* named <id><ext of the upload> that was not there before.
UpdateOfMissingLeavesState ==
    [][\A r \in Slots :
          (/\ req[r].kind = "PUT" /\ req[r].pc \in {"u_bind", "u_exec"}
           /\ FindIndex(store, PokeId(req[r])) = 0)
          => /\ store' = store
             /\ req[r].file.present
                => LET name == NumToString(PokeId(req[r]).n) \o ExtName(req[r].file.originalname)
                   IN  name \in DOMAIN files' => name \in DOMAIN files]_vars

\* x occurs in s as a substring, letter case ignored
ContainsIgnoringCase(s, x) ==
    \E i \in 1..(Len(s) - Len(x) + 1) :
        \A k \in 1..Len(x) : ToLower(s[i + k - 1]) = ToLower(x[k])

\* a Search request that has been answered
Searched(q) == q.pc = "done" /\ q.kind = "SEARCH"

\* C13: a Search with an absent, empty or whitespace-only query answers the
\* empty sequence whatever the store holds, without a query of the store (so no
\* store failure can be met); a Search with any other query x, unless the store
\* fails, answers exactly the records whose name contains x as a substring,
\* letter case ignored, in store order.
SearchIsSubstringMatch ==
    \A r \in Slots :
        Searched(req[r])
        => LET x == IF req[r].query.t = "string" THEN req[r].query.s ELSE <<>>
           IN  IF \A k \in 1..Len(x) : x[k] = " "
               THEN req[r].status = 200 /\ req[r].list = <<>> /\ req[r].cause = ""
               ELSE req[r].cause # "store error"
                    => /\ req[r].status = 200
                       /\ req[r].list =
                              SelectSeq(store, LAMBDA p :
                                  ContainsIgnoringCase(p.name.french.s, x))

\* a List request that has been answered without a failure of the store
Listed(q) == q.pc = "done" /\ q.kind = "LIST" /\ q.cause = ""

\* C14: for a store of N records and a page p >= 1, List(p) answers page p, the
\* records at positions (p-1)*20+1 .. min(p*20, N) of the store in store order
\* (none when (p-1)*20 >= N, without error) and totalPages = ceil(N/20), the
\* least k with 20*k >= N.
ListAnswersPage ==
    \A r \in Slots, p \in 1..MaxPage :
        (/\ req[r].pc = "done" /\ req[r].kind = "LIST" /\ req[r].cause # "store error"
         /\ req[r].query = Str(NumToString(p)))
        => LET N == Len(store)
               first == (p - 1) * 20 + 1
               last == IF p * 20 < N THEN p * 20 ELSE N
               data == req[r].list
           IN  /\ req[r].status = 200
               /\ req[r].page = p
               /\ Len(data) = (IF first > N THEN 0 ELSE last - first + 1)
               /\ \A k \in 1..Len(data) : data[k] = store[first + k - 1]
               /\ 20 * req[r].totalPages >= N
               /\ 20 * (req[r].totalPages - 1) < N \/ (N = 0 /\ req[r].totalPages = 0)

\* page 2 of a store of 25 records has been answered: 5 records, 2 pages
ListedSecondPageOf25 ==
    \E r \in Slots :
        /\ Listed(req[r]) /\ Len(store) = 25 /\ req[r].query = Str(<<"2">>)
        /\ Len(req[r].list) = 5 /\ req[r].list[1].id = 21 /\ req[r].totalPages = 2

\* the asset of record 1 in the racing Updates
Asset1 == <<"1", ".", "png">>

\* both slots hold an Update of record 1 that has answered 200
BothUpdated == \A r \in Slots : Updated(req[r]) /\ req[r].file.present

\* C19 as stated: once two racing Updates of one record with uploads of the same
\* extension have both answered, the asset file and the record's fields together
\* are those one of the two serial orders leaves, that is the upload and the
\* fields of the same Update, the one that ran second.
RacingUpdatesSerializable ==
    BothUpdated
    => \E r \in Slots :
           /\ files[Asset1] = r
           /\ store[1].name.french = Raw(req[r].raw, "name.french")
           /\ store[1].image = <<Host, AssetDir>> \o Asset1

\* C19: once two racing Updates of one record with uploads of the same extension
\* have both answered, the asset file holds the upload of one of them and the
\* record the fields of one of them, with the image reference both set; the two
\* need not be the same Update.
RacingUpdatesLastWriteWinsEach ==
    BothUpdated
    => /\ Len(store) = 1 /\ store[1].id = 1
       /\ Asset1 \in DOMAIN files
       /\ \E r \in Slots : files[Asset1] = r
       /\ \E r \in Slots : store[1].name.french = Raw(req[r].raw, "name.french")
       /\ store[1].image = <<Host, AssetDir>> \o Asset1
       /\ \A r \in Slots : req[r].file.path \notin DOMAIN files

\* both Updates have answered; the file is the upload of the first slot and the
\* name is the one the second slot sent
RacingUpdatesMixed ==
    /\ BothUpdated
    /\ files[Asset1] = 1
    /\ store[1].name.french = Raw(req[2].raw, "name.french")
    /\ Raw(req[1].raw, "name.french") # Raw(req[2].raw, "name.french")

====
